---------------------------- MODULE Spec2Model ----------------------------
(***************************************************************************)
(* A model of the RethinkDB driver's connection engine                     *)
(* (src/src/connection.rs): the V1_0 handshake with SCRAM authentication,  *)
(* the teardown performed by connect, the token/length framing of          *)
(* send_query, and the framed read of parse_response.                      *)
(*                                                                         *)
(* Integers wider than TLC's are kept as little-endian sequences of 16-bit *)
(* limbs (a u64 or a 64-bit usize has four limbs, a u32 two), so that the  *)
(* 32-bit length limit and the 64-bit wrap of the token are the program's. *)
(* A byte string written to the socket is a sequence of runs               *)
(* [b |-> byte, n |-> count]; a run lets a payload of 2^32 bytes be        *)
(* written down. Bytes received are a plain sequence of units: 0..255 are  *)
(* bytes, and a unit of 256 or more abbreviates the bytes of one member    *)
(* ("key":value) of a handshake JSON object.                               *)
(***************************************************************************)
EXTENDS Integers, Sequences, FiniteSets, TLC

(***************************************************************************)
(* Bounds of the model.                                                    *)
(***************************************************************************)
\* send_query / parse_response calls made on one connection
MaxCalls == 2
\* response frames (or stray bytes) the server sends after the handshake
MaxFrames == 2
\* largest count a short or failed write is drawn from
MaxShort == 1
\* I/O errors the socket reports to send_query and parse_response in one run
MaxFaults == 1
\* longest array literal and longest list of children of the trees serialized
MaxLen == 2

(***************************************************************************)
(* Fixed-width unsigned integers as 16-bit limbs.                          *)
(***************************************************************************)
Limb == 2^16

Min(a, b) == IF a < b THEN a ELSE b

\* the value n (0 <= n < 2^31) as w limbs
RECURSIVE ToLimbs(_, _)
ToLimbs(n, w) == IF w = 0 THEN <<>> ELSE <<n % Limb>> \o ToLimbs(n \div Limb, w - 1)

U64(n) == ToLimbs(n, 4)

RECURSIVE AddFrom(_, _, _, _)
AddFrom(a, b, i, carry) ==
    IF i > Len(a) THEN <<>>
    ELSE LET s == a[i] + b[i] + carry
         IN  <<s % Limb>> \o AddFrom(a, b, i + 1, s \div Limb)

\* u64::wrapping_add: the carry out of the top limb is dropped
wrapping_add(a, b) == AddFrom(a, b, 1, 0)

RECURSIVE LtFrom(_, _, _)
LtFrom(a, b, i) ==
    IF i = 0 THEN FALSE
    ELSE IF a[i] # b[i] THEN a[i] < b[i]
    ELSE LtFrom(a, b, i - 1)

Lt(a, b) == LtFrom(a, b, Len(a))
Gt(a, b) == Lt(b, a)
Le(a, b) == ~Lt(b, a)

RECURSIVE SubFrom(_, _, _, _)
SubFrom(a, b, i, borrow) ==
    IF i > Len(a) THEN <<>>
    ELSE LET d == a[i] - b[i] - borrow
         IN  IF d < 0 THEN <<d + Limb>> \o SubFrom(a, b, i + 1, 1)
             ELSE <<d>> \o SubFrom(a, b, i + 1, 0)

\* a - b for a >= b
Sub(a, b) == SubFrom(a, b, 1, 0)

Zero == U64(0)
One == U64(1)

\* std::u32::MAX as usize
U32_MAX == <<Limb - 1, Limb - 1, 0, 0>>
\* std::u64::MAX
U64_MAX == <<Limb - 1, Limb - 1, Limb - 1, Limb - 1>>

\* `len as u32`: the low 32 bits
AsU32(len) == <<len[1], len[2]>>

\* byteorder's LittleEndian encoding of a limb sequence: least significant byte first
RECURSIVE LittleEndian(_)
LittleEndian(x) ==
    IF x = <<>> THEN <<>>
    ELSE <<x[1] % 256, x[1] \div 256>> \o LittleEndian(Tail(x))

\* byteorder's LittleEndian decoding of 2w bytes into w limbs
RECURSIVE FromLittleEndian(_)
FromLittleEndian(bs) ==
    IF Len(bs) < 2 THEN <<>>
    ELSE <<bs[1] + 256 * bs[2]>> \o FromLittleEndian(SubSeq(bs, 3, Len(bs)))

(***************************************************************************)
(* Byte strings as runs.                                                   *)
(***************************************************************************)
Run(b, n) == [b |-> b, n |-> n]

\* an explicit sequence of bytes as runs of length one
Str(bytes) == [i \in 1..Len(bytes) |-> Run(bytes[i], One)]

\* the length of s in bytes: the length of its first run plus the length of the rest
RECURSIVE RLen(_)
RLen(s) ==
    IF s = <<>> THEN Zero
    ELSE CHOOSE total \in { wrapping_add(s[1].n, rest) : rest \in {RLen(Tail(s))} } : TRUE

\* the first k bytes of s
RECURSIVE RTake(_, _)
RTake(s, k) ==
    IF s = <<>> \/ k = Zero THEN <<>>
    ELSE IF Le(s[1].n, k) THEN <<s[1]>> \o RTake(Tail(s), Sub(k, s[1].n))
    ELSE <<Run(s[1].b, k)>>

(***************************************************************************)
(* error::Error, and the foreign errors my_try! coerces into it.           *)
(* An error's text is a literal (lit) or the raw units received (raw).     *)
(***************************************************************************)
Ok == [kind |-> "Ok", lit |-> "", raw |-> <<>>, size |-> Zero]

ServerError(lit, raw) == [kind |-> "ServerError", lit |-> lit, raw |-> raw, size |-> Zero]
ReqlAuthError == [kind |-> "ReqlAuthError", lit |-> "", raw |-> <<>>, size |-> Zero]
QueryTooLarge(n) == [kind |-> "QueryTooLarge", lit |-> "", raw |-> <<>>, size |-> n]

\* std::io::Error, std::string::FromUtf8Error, scram::Error, json::DecoderError, json::ParserError
Foreign(kind, lit) == [kind |-> kind, lit |-> lit, raw |-> <<>>, size |-> Zero]

OwnKinds == {"ServerError", "ReqlAuthError", "QueryTooLarge"}

\* impl Display for Error, and the Display of a foreign error
Display(e) ==
    CASE e.kind = "QueryTooLarge" ->
            [lit |-> "Query was too large: max size is 4294967295 bytes but the query takes up {size} bytes.",
             raw |-> <<>>, size |-> e.size]
      [] e.kind = "ReqlAuthError" ->
            [lit |-> "Authentication failed.", raw |-> <<>>, size |-> Zero]
      [] OTHER -> [lit |-> e.lit, raw |-> e.raw, size |-> e.size]

\* my_try!: Ok(x) is unwrapped, any Err(error) returns
\* Err(Error::ServerError(format!("{}", error))) from the enclosing function
my_try(r) ==
    IF r.kind = "Ok" THEN r
    ELSE LET d == Display(r)
         IN  [kind |-> "ServerError", lit |-> d.lit, raw |-> d.raw, size |-> d.size]

(***************************************************************************)
(* Handshake JSON. A text is a sequence of units; an object is             *)
(* '{' members '}' with one unit per member.                               *)
(***************************************************************************)
\* the terminator of a handshake message
NUL == 0

Keys == << "success", "min_protocol_version", "max_protocol_version", "server_version",
           "authentication", "error", "error_code",
           "authentication_method", "protocol_version" >>

KeyIx(key) == CHOOSE i \in DOMAIN Keys : Keys[i] = key

\* the strings that occur as member values
Texts == << "SCRAM-SHA-256",
            "n,,n=user,r=cnonce",
            "r=cnonce+snonce,s=salt,i=4096",
            "r=other+snonce,s=salt,i=4096",
            "c=biws,r=cnonce+snonce,p=proof",
            "v=serversignature",
            "v=forged",
            "Wrong password",
            "2.3.0" >>

TextIx(s) == CHOOSE i \in DOMAIN Texts : Texts[i] = s

\* the unit of the member "key":val (val a boolean as 0/1, a number, or a TextIx)
Member(key, val) == 256 + 64 * KeyIx(key) + val
IsMember(u) == u >= 256 + 64 /\ u < 256 + 64 * (Len(Keys) + 1)
KeyOf(u) == Keys[(u - 256) \div 64]
ValOf(u) == (u - 256) % 64

\* 123 and 125 are the bytes '{' and '}'
Obj(members) == <<123>> \o members \o <<125>>

IsObject(text) ==
    /\ Len(text) >= 2
    /\ text[1] = 123
    /\ text[Len(text)] = 125
    /\ \A i \in 2..(Len(text) - 1) : IsMember(text[i])

HasKey(text, key) == \E i \in 2..(Len(text) - 1) : KeyOf(text[i]) = key
Get(text, key) == ValOf(text[CHOOSE i \in 2..(Len(text) - 1) : KeyOf(text[i]) = key])

\* rustc_serialize json::decode::<T> for a struct T with the fields `fields`, in
\* declaration order: a parse error, the first missing field, or the decoded struct
RECURSIVE FirstMissing(_, _)
FirstMissing(text, fields) ==
    IF fields = <<>> THEN ""
    ELSE IF ~HasKey(text, fields[1]) THEN fields[1]
    ELSE FirstMissing(text, Tail(fields))

MissingFieldText(field) ==
    CASE field = "success" -> "MissingFieldError(success)"
      [] field = "authentication" -> "MissingFieldError(authentication)"
      [] field = "error" -> "MissingFieldError(error)"
      [] field = "error_code" -> "MissingFieldError(error_code)"
      [] OTHER -> "MissingFieldError(protocol field)"

decode(text, fields) ==
    IF ~IsObject(text) THEN Foreign("DecoderError", "ParseError(SyntaxError)")
    ELSE IF FirstMissing(text, fields) # ""
         THEN Foreign("DecoderError", MissingFieldText(FirstMissing(text, fields)))
    ELSE Ok

ProtocolSuccessResponse == <<"success", "min_protocol_version", "max_protocol_version", "server_version">>
ServerSuccessResponse == <<"authentication", "success">>
ServerErrorResponse == <<"error", "error_code", "success">>

SUB_PROTOCOL_VERSION == 0

(***************************************************************************)
(* The SCRAM collaborator (crate scram), as the exchange the driver sees.  *)
(***************************************************************************)
\* ClientFirst::client_first: the client's first authentication string
ClientFirstAuth == TextIx("n,,n=user,r=cnonce")
\* ClientFinal::client_final: the client's final authentication string
ClientFinalAuth == TextIx("c=biws,r=cnonce+snonce,p=proof")

\* ServerFirst::handle_server_first: accepts a server-first string that extends
\* the client's nonce
handle_server_first(auth) ==
    IF auth = TextIx("r=cnonce+snonce,s=salt,i=4096") THEN Ok
    ELSE Foreign("scram::Error", "Protocol error: nonce")

\* ServerFinal::handle_server_final: accepts the server signature derived from
\* the shared secret
handle_server_final(auth) ==
    IF auth = TextIx("v=serversignature") THEN Ok
    ELSE Foreign("scram::Error", "Invalid server signature")

(***************************************************************************)
(* What a server can send during the handshake.                            *)
(***************************************************************************)
ErrorCodes == {9, 10, 15, 20, 21, 30}

ProtocolAck(success) ==
    Obj(<< Member("max_protocol_version", 0), Member("min_protocol_version", 0),
           Member("server_version", TextIx("2.3.0")), Member("success", success) >>)

ServerSuccess(auth, success) ==
    Obj(<< Member("authentication", TextIx(auth)), Member("success", success) >>)

ServerErr(code, success) ==
    Obj(<< Member("error", TextIx("Wrong password")), Member("error_code", code),
           Member("success", success) >>)

\* a message with the fields of both shapes, its error_code in 10..20
BothShapes(auth, success) ==
    Obj(<< Member("authentication", TextIx(auth)), Member("error", TextIx("Wrong password")),
           Member("error_code", 15), Member("success", success) >>)

\* the bytes E, R, R: a text that is not JSON
NotJson == <<69, 82, 82>>
\* a JSON object of neither shape
NeitherShape == Obj(<< Member("success", 0) >>)

AckMsgs == { ProtocolAck(1), ProtocolAck(0), NotJson }

ErrorShapeMsgs == { ServerErr(c, 0) : c \in ErrorCodes } \cup { ServerErr(15, 1) }

ServerFirstMsgs ==
    { ServerSuccess("r=cnonce+snonce,s=salt,i=4096", 1),
      ServerSuccess("r=other+snonce,s=salt,i=4096", 1),
      ServerSuccess("r=cnonce+snonce,s=salt,i=4096", 0),
      BothShapes("r=cnonce+snonce,s=salt,i=4096", 1),
      BothShapes("r=cnonce+snonce,s=salt,i=4096", 0),
      NeitherShape } \cup ErrorShapeMsgs

ServerFinalMsgs ==
    { ServerSuccess("v=serversignature", 1),
      ServerSuccess("v=forged", 1),
      ServerSuccess("v=serversignature", 0),
      BothShapes("v=serversignature", 1),
      BothShapes("v=serversignature", 0),
      NeitherShape } \cup ErrorShapeMsgs

HandshakeMsgs(k) ==
    CASE k = 1 -> AckMsgs
      [] k = 2 -> ServerFirstMsgs
      [] OTHER -> ServerFinalMsgs

(***************************************************************************)
(* State.                                                                  *)
(***************************************************************************)
VARIABLES
    pc,           \* where the caller is: in connect, in a handshake step, holding the connection
    log,          \* the calls made on the socket, in order
    inbox,        \* units the peer has sent that no read has consumed yet
    peer,         \* the server: messages and frames sent, whether it closed its end
    hs,           \* the handshake: steps completed, the failing step and its error
    auth,         \* the authentication field of the last server message parsed
    ret,          \* what connect returned to its caller (kind "None" until it returns)
    query_token,  \* Connection.query_token
    calls         \* one record per send_query / parse_response call, in order

vars == <<pc, log, inbox, peer, hs, auth, ret, query_token, calls>>

None == [kind |-> "None", lit |-> "", raw |-> <<>>, size |-> Zero]

\* a call on the socket: the buffer passed, the bytes accepted, the units consumed
Ev(op, buf, n, got, ok) == [op |-> op, buf |-> buf, n |-> n, got |-> got, ok |-> ok]

Flush == Ev("flush", <<>>, Zero, <<>>, TRUE)

\* counts a failed write_all may have written before the failure
PartialCounts(buf) == { U64(i) : i \in { j \in 0..MaxShort : Lt(U64(j), RLen(buf)) } }
\* counts Write::write may return: the whole buffer or a shorter prefix
WriteCounts(buf) ==
    {RLen(buf)} \cup { U64(i) : i \in { j \in 1..MaxShort : Lt(U64(j), RLen(buf)) } }

IoError == Foreign("io::Error", "Connection reset by peer")

RECURSIVE Wire(_)
\* the bytes the calls of log l put on the socket
Wire(l) ==
    IF l = <<>> THEN <<>>
    ELSE IF l[1].op \in {"write", "write_all"} THEN RTake(l[1].buf, l[1].n) \o Wire(Tail(l))
    ELSE Wire(Tail(l))

Init ==
    /\ pc = "connect"
    /\ log = <<>>
    /\ inbox = <<>>
    /\ peer = [sent |-> 0, frames |-> 0, closed |-> FALSE]
    /\ hs = [done |-> <<>>, failed |-> "", stepErr |-> Ok, at |-> 0, err |-> Ok]
    /\ auth = 0
    /\ ret = None
    /\ query_token = Zero
    /\ calls = <<>>

(***************************************************************************)
(* Handshake steps. A step that passes moves on; a step that fails makes   *)
(* handshake return my_try!'s rendering of its error to connect.           *)
(***************************************************************************)
Pass(step, next, newlog) ==
    /\ hs' = [hs EXCEPT !.done = Append(@, step)]
    /\ pc' = next
    /\ log' = newlog

\* a step that, when it fails, is tried again
Retry(step, e, newlog) ==
    /\ hs' = hs
    /\ pc' = step
    /\ log' = log

Fail(step, e, newlog) ==
    /\ hs' = [hs EXCEPT !.failed = step, !.stepErr = e, !.at = Len(newlog), !.err = my_try(e)]
    /\ pc' = "teardown"
    /\ log' = newlog

\* TcpStream::connect and the construction of the Connection value
TcpConnect ==
    /\ pc = "connect"
    /\ \/ /\ pc' = "send_version_number"
          /\ query_token' = U64(0)
          /\ ret' = ret
       \/ /\ pc' = "returned"
          /\ ret' = my_try(Foreign("io::Error", "Connection refused"))
          /\ query_token' = query_token
    /\ UNCHANGED <<log, inbox, peer, hs, auth, calls>>

V1_0 == 885177795

VersionBytes == Str(LittleEndian(ToLimbs(V1_0, 2)))

send_version_number ==
    /\ pc = "send_version_number"
    /\ \/ Pass("send_version_number", "parse_protocol_response",
               log \o << Ev("write_all", VersionBytes, RLen(VersionBytes), <<>>, TRUE), Flush >>)
       \/ \E k \in PartialCounts(VersionBytes) :
            Fail("send_version_number", my_try(IoError),
                 Append(log, Ev("write_all", VersionBytes, k, <<>>, FALSE)))
    /\ UNCHANGED <<inbox, peer, auth, ret, query_token, calls>>

(***************************************************************************)
(* Reading a NUL-terminated message.                                       *)
(***************************************************************************)
FirstNul(inb) ==
    IF \E i \in DOMAIN inb : inb[i] = NUL
    THEN CHOOSE i \in DOMAIN inb : inb[i] = NUL /\ \A j \in 1..(i - 1) : inb[j] # NUL
    ELSE 0

\* Vec::pop: drops the last element, if there is one
pop(v) == IF v = <<>> THEN <<>> ELSE SubSeq(v, 1, Len(v) - 1)

\* read_stream_until_null on a socket holding inb. BufReader::read_until returns
\* the bytes up to and including the first NUL, or every byte left when the peer
\* has closed; the BufReader took from the socket all that was there (its 8 KiB
\* buffer is larger than any stream of the model) and is dropped with it.
\* 255 is a byte no UTF-8 text contains.
read_stream_until_null(inb, ioerr) ==
    LET i    == FirstNul(inb)
        recv == pop(IF i > 0 THEN SubSeq(inb, 1, i) ELSE inb)
    IN  IF ioerr
        THEN [res |-> ServerError(IoError.lit, <<>>), text |-> <<>>, got |-> <<>>, rest |-> inb]
        ELSE [res  |-> IF \E j \in DOMAIN recv : recv[j] = 255
                       THEN my_try(Foreign("FromUtf8Error", "invalid utf-8 sequence"))
                       ELSE Ok,
              text |-> recv, got |-> inb, rest |-> <<>>]

\* read_until_null: the same result, through the RefCell
read_until_null(inb, ioerr) == read_stream_until_null(inb, ioerr)

\* a blocking read returns once a NUL has arrived, the peer has closed, or the
\* socket reports an error
ReadReturns(ioerr) == ioerr \/ FirstNul(inbox) > 0 \/ peer.closed

SuccessFalse == "Received a success response from RethinkDB with success = false."
ErrorTrue == "Received an error response from RethinkDB with success = true."

\* parse_protocol_response, on the result rd of read_until_null
AckAcceptsAnySuccess(rd) ==
    IF rd.res.kind # "Ok" THEN my_try(rd.res)
    ELSE IF decode(rd.text, ProtocolSuccessResponse).kind = "Ok" THEN Ok
    ELSE ServerError("", rd.text)

\* a protocol ack step that reports the decoder's error, not the text received
AckReportsDecoderError(rd) ==
    IF rd.res.kind # "Ok" THEN my_try(rd.res)
    ELSE IF decode(rd.text, ProtocolSuccessResponse).kind = "Ok"
         THEN IF Get(rd.text, "success") = 1 THEN Ok
              ELSE ServerError(SuccessFalse, <<>>)
    ELSE ServerError(decode(rd.text, ProtocolSuccessResponse).lit, <<>>)

parse_protocol_response(rd) ==
    IF rd.res.kind # "Ok" THEN my_try(rd.res)
    ELSE IF decode(rd.text, ProtocolSuccessResponse).kind = "Ok"
         THEN IF Get(rd.text, "success") = 1 THEN Ok
              ELSE ServerError(SuccessFalse, <<>>)
    ELSE ServerError("", rd.text)

\* a server-message step that tries the error shape before the success shape
ErrorShapeFirst(rd) ==
    IF rd.res.kind # "Ok" THEN my_try(rd.res)
    ELSE IF decode(rd.text, ServerErrorResponse).kind = "Ok"
         THEN IF Get(rd.text, "success") # 1
              THEN IF Get(rd.text, "error_code") >= 10 /\ Get(rd.text, "error_code") <= 20
                   THEN ReqlAuthError
                   ELSE ServerError(Texts[Get(rd.text, "error")], <<>>)
              ELSE ServerError(ErrorTrue, <<>>)
    ELSE IF decode(rd.text, ServerSuccessResponse).kind = "Ok"
         THEN IF Get(rd.text, "success") = 1 THEN Ok
              ELSE ServerError(SuccessFalse, <<>>)
    ELSE ServerError(decode(rd.text, ServerSuccessResponse).lit, <<>>)

\* parse_server_message, on the result rd of read_until_null
parse_server_message(rd) ==
    IF rd.res.kind # "Ok" THEN my_try(rd.res)
    ELSE IF decode(rd.text, ServerSuccessResponse).kind = "Ok"
         THEN IF Get(rd.text, "success") = 1 THEN Ok
              ELSE ServerError(SuccessFalse, <<>>)
    ELSE IF decode(rd.text, ServerErrorResponse).kind = "Ok"
         THEN IF Get(rd.text, "success") # 1
              THEN IF Get(rd.text, "error_code") >= 10 /\ Get(rd.text, "error_code") <= 20
                   THEN ReqlAuthError
                   ELSE ServerError(Texts[Get(rd.text, "error")], <<>>)
              ELSE ServerError(ErrorTrue, <<>>)
    ELSE ServerError(decode(rd.text, ServerErrorResponse).lit, <<>>)

\* the authentication field of a message parse_server_message accepted
AuthOf(rd) == IF parse_server_message(rd).kind = "Ok" THEN Get(rd.text, "authentication") ELSE 0

ReadEv(rd) == Ev("read_until", <<>>, Zero, rd.got, rd.res.kind = "Ok")

AwaitProtocolAck ==
    /\ pc = "parse_protocol_response"
    /\ \E ioerr \in BOOLEAN :
         /\ ReadReturns(ioerr)
         /\ \E rd \in {read_until_null(inbox, ioerr)} :
            \E r \in {parse_protocol_response(rd)} :
                /\ inbox' = rd.rest
                /\ IF r.kind = "Ok"
                   THEN Pass("parse_protocol_response", "send_client_first_message",
                             Append(log, ReadEv(rd)))
                   ELSE Fail("parse_protocol_response", r, Append(log, ReadEv(rd)))
    /\ UNCHANGED <<peer, auth, ret, query_token, calls>>

\* json::encode of the client-first message (a BTreeMap: keys in order)
ClientFirstJson ==
    Str(Obj(<< Member("authentication", ClientFirstAuth),
               Member("authentication_method", TextIx("SCRAM-SHA-256")),
               Member("protocol_version", SUB_PROTOCOL_VERSION) >>))

\* json::encode of the client-final message
ClientFinalJson == Str(Obj(<< Member("authentication", ClientFinalAuth) >>))

NulByte == Str(<<NUL>>)

\* a message sent and left in the buffer: no flush
SentUnflushed(encoded, n) ==
    << Ev("write", encoded, n, <<>>, TRUE), Ev("write_all", NulByte, One, <<>>, TRUE) >>

\* the socket calls of a message sent: write(&encoded) taking n bytes, write_u8(0), flush
Sent(encoded, n) ==
    << Ev("write", encoded, n, <<>>, TRUE), Ev("write_all", NulByte, One, <<>>, TRUE), Flush >>

\* write(&encoded), write_u8(0), flush: the calls made and the error, if one fails
SendMessage(step, next, encoded) ==
    \/ \E n \in WriteCounts(encoded) : Pass(step, next, log \o Sent(encoded, n))
    \/ \E n \in WriteCounts(encoded) :
         Fail(step, my_try(IoError),
              log \o << Ev("write", encoded, n, <<>>, TRUE),
                        Ev("write_all", NulByte, Zero, <<>>, FALSE) >>)
    \/ Fail(step, my_try(IoError), Append(log, Ev("write", encoded, Zero, <<>>, FALSE)))

send_client_first_message ==
    /\ pc = "send_client_first_message"
    /\ \/ SendMessage("send_client_first_message", "parse_server_first", ClientFirstJson)
       \/ \* ClientFirst::new fails
          Fail("send_client_first_message",
               my_try(Foreign("scram::Error", "Could not create a nonce")), log)
    /\ UNCHANGED <<inbox, peer, auth, ret, query_token, calls>>

AwaitServerMessage(step, next) ==
    /\ pc = step
    /\ \E ioerr \in BOOLEAN :
         /\ ReadReturns(ioerr)
         /\ \E rd \in {read_until_null(inbox, ioerr)} :
            \E r \in {parse_server_message(rd)} :
                /\ inbox' = rd.rest
                /\ auth' = AuthOf(rd)
                /\ IF r.kind = "Ok"
                   THEN Pass(step, next, Append(log, ReadEv(rd)))
                   ELSE Fail(step, r, Append(log, ReadEv(rd)))
    /\ UNCHANGED <<peer, ret, query_token, calls>>

AwaitServerFirst == AwaitServerMessage("parse_server_first", "handle_server_first")

HandleServerFirst ==
    /\ pc = "handle_server_first"
    /\ IF handle_server_first(auth).kind = "Ok"
       THEN Pass("handle_server_first", "send_client_final_message", log)
       ELSE Fail("handle_server_first", handle_server_first(auth), log)
    /\ UNCHANGED <<inbox, peer, auth, ret, query_token, calls>>

send_client_final_message ==
    /\ pc = "send_client_final_message"
    /\ SendMessage("send_client_final_message", "parse_server_final", ClientFinalJson)
    /\ UNCHANGED <<inbox, peer, auth, ret, query_token, calls>>

AwaitServerFinal == AwaitServerMessage("parse_server_final", "handle_server_final")

HandleServerFinal ==
    /\ pc = "handle_server_final"
    /\ IF handle_server_final(auth).kind = "Ok"
       THEN Pass("handle_server_final", "handshake_ok", log)
       ELSE Fail("handle_server_final", handle_server_final(auth), log)
    /\ UNCHANGED <<inbox, peer, auth, ret, query_token, calls>>

(***************************************************************************)
(* connect's match on the handshake's result.                              *)
(***************************************************************************)
\* Ok(()) => Ok(conn)
ConnectOk ==
    /\ pc = "handshake_ok"
    /\ ret' = Ok
    /\ pc' = "ready"
    /\ UNCHANGED <<log, inbox, peer, hs, auth, query_token, calls>>

\* a teardown that leaves the socket alone
NoShutdown(ok) == <<>>

\* what the Err arm does with the socket before it returns
ShutdownEvents(ok) == << Ev("shutdown(Both)", <<>>, Zero, <<>>, ok) >>

\* Err(error) => stream.shutdown(Shutdown::Both).unwrap(): a failed shutdown panics
Teardown ==
    /\ pc = "teardown"
    /\ \/ /\ log' = log \o ShutdownEvents(TRUE)
          /\ pc' = "return_err"
       \/ /\ log' = log \o ShutdownEvents(FALSE)
          /\ pc' = "panicked"
    /\ UNCHANGED <<inbox, peer, hs, auth, ret, query_token, calls>>

\* Err(error)
ReturnErr ==
    /\ pc = "return_err"
    /\ ret' = hs.err
    /\ pc' = "returned"
    /\ UNCHANGED <<log, inbox, peer, hs, auth, query_token, calls>>

(***************************************************************************)
(* The server.                                                             *)
(***************************************************************************)
SocketOpen == pc \notin {"connect", "returned", "return_err", "panicked"}

\* the server sends its next handshake message; it need not wait for the client
ServerSend ==
    /\ SocketOpen
    /\ ~peer.closed
    /\ peer.sent < 3
    /\ \E m \in HandshakeMsgs(peer.sent + 1) :
         inbox' = inbox \o m \o <<NUL>>
    /\ peer' = [peer EXCEPT !.sent = @ + 1]
    /\ UNCHANGED <<pc, log, hs, auth, ret, query_token, calls>>

\* the next message of a server that answers as the protocol says
NextValid(k) ==
    CASE k = 1 -> ProtocolAck(1)
      [] k = 2 -> ServerSuccess("r=cnonce+snonce,s=salt,i=4096", 1)
      [] OTHER -> ServerSuccess("v=serversignature", 1)

\* the server sends its next message without the terminating NUL and closes:
\* the stream ends in the middle of a message
ServerCutShort ==
    /\ SocketOpen
    /\ ~peer.closed
    /\ peer.sent < 3
    /\ inbox' = inbox \o NextValid(peer.sent + 1)
    /\ peer' = [peer EXCEPT !.sent = @ + 1, !.closed = TRUE]
    /\ UNCHANGED <<pc, log, hs, auth, ret, query_token, calls>>

ServerClose ==
    /\ SocketOpen
    /\ ~peer.closed
    /\ peer' = [peer EXCEPT !.closed = TRUE]
    /\ UNCHANGED <<pc, log, inbox, hs, auth, ret, query_token, calls>>

(***************************************************************************)
(* Query trees (reql/tree.rs) and their JSON text.                         *)
(***************************************************************************)
I64(n) == [j |-> "I64", v |-> n]
String(runs) == [j |-> "String", v |-> runs]
Array(xs) == [j |-> "Array", v |-> xs]
Null == [j |-> "Null", v |-> 0]
Boolean(b) == [j |-> "Boolean", v |-> b]
\* an object: its members <<key, value>>, in key order
Object(members) == [j |-> "Object", v |-> members]

Datum(json) == [t |-> "Datum", json |-> json]
Query(head, tail) == [t |-> "Query", head |-> head, tail |-> tail]

\* Term_TermType::MAKE_ARRAY and Term_TermType::DB_CREATE
MAKE_ARRAY == 2
DB_CREATE == 57

RECURSIVE to_json(_)

\* a serialization that emits the children of an operator last to first
ReversedChildren(tree) ==
    IF tree.t = "Query"
    THEN Array(<<I64(tree.head)>> \o
               [i \in 1..Len(tree.tail) |-> to_json(tree.tail[Len(tree.tail) + 1 - i])])
    ELSE IF tree.json.j = "Array"
    THEN Array(<< I64(MAKE_ARRAY), Array(tree.json.v) >>)
    ELSE tree.json

\* a serialization that wraps every literal the way it wraps arrays
EscapesEveryLiteral(tree) ==
    IF tree.t = "Query"
    THEN Array(<<I64(tree.head)>> \o [i \in 1..Len(tree.tail) |-> to_json(tree.tail[i])])
    ELSE IF tree.json.j = "Array"
    THEN Array(<< I64(MAKE_ARRAY), Array(tree.json.v) >>)
    ELSE Array(<< I64(MAKE_ARRAY), Array(<< tree.json >>) >>)

\* impl ToJson for Tree
to_json(tree) ==
    IF tree.t = "Query"
    THEN Array(<<I64(tree.head)>> \o [i \in 1..Len(tree.tail) |-> to_json(tree.tail[i])])
    ELSE IF tree.json.j = "Array"
    THEN Array(<< I64(MAKE_ARRAY), Array(tree.json.v) >>)
    ELSE tree.json

RECURSIVE Digits(_)
\* the decimal digits of n >= 0, as bytes
Digits(n) == IF n < 10 THEN <<48 + n>> ELSE Digits(n \div 10) \o <<48 + (n % 10)>>

RECURSIVE json_encode(_)
RECURSIVE EncodeElems(_)
\* the elements of an array, separated by commas (byte 44)
EncodeElems(xs) ==
    IF xs = <<>> THEN <<>>
    ELSE IF Len(xs) = 1 THEN json_encode(xs[1])
    ELSE json_encode(xs[1]) \o Str(<<44>>) \o EncodeElems(Tail(xs))

\* rustc_serialize json::encode of a Json value: compact text, as runs of bytes
\* (34 is '"', 91 and 93 are '[' and ']')
json_encode(json) ==
    CASE json.j = "I64" -> Str(Digits(json.v))
      [] json.j = "String" -> Str(<<34>>) \o json.v \o Str(<<34>>)
      [] json.j = "Array" -> Str(<<91>>) \o EncodeElems(json.v) \o Str(<<93>>)
      [] OTHER -> Str(<<110, 117, 108, 108>>)

\* a name of n letters 'a' (byte 97)
Letters(n) == String(<< Run(97, n) >>)

\* the tree db_create builds for a name
DbCreateTree(name) == Query(DB_CREATE, << Datum(name) >>)

\* the text [57,"..."] is seven bytes longer than the name
DbCreateOverhead == U64(7)

\* the trees send_query is called with: db_create of a one-letter name, of a name
\* that makes the text exactly u32::MAX bytes long, and of a name one letter longer
QueryTrees ==
    { DbCreateTree(Letters(One)),
      DbCreateTree(Letters(Sub(U32_MAX, DbCreateOverhead))),
      DbCreateTree(Letters(wrapping_add(Sub(U32_MAX, DbCreateOverhead), One))) }

NoTree == Datum(Null)

(***************************************************************************)
(* send_query.                                                             *)
(***************************************************************************)
\* a call's record: its argument, the token and length it used or read, its result,
\* the socket's unread units when it began, and its calls on the socket (log[from+1..to])
Call(op, tree, token, len, res, value, inb, from, to) ==
    [op |-> op, tree |-> tree, token |-> token, len |-> len, res |-> res,
     value |-> value, inb |-> inb, from |-> from, to |-> to]

\* a counter that never moves
SameToken(token) == token

\* a counter that stops at u64::MAX instead of wrapping
SaturatingToken(token) == IF token = U64_MAX THEN token ELSE wrapping_add(token, One)

\* the token the next query takes is the counter; the counter then moves on
NextToken(token) == wrapping_add(token, One)

\* a limit one byte too strict: len >= u32::MAX
TooLargeInclusive(len) == ~Lt(len, U32_MAX)

\* if len > (u32::MAX as usize)
TooLarge(len) == Gt(len, U32_MAX)

WriteAllOk(buf) == Ev("write_all", buf, RLen(buf), <<>>, TRUE)
WriteAllErr(buf, k) == Ev("write_all", buf, k, <<>>, FALSE)

\* the calls send_query makes on the socket and the result it returns, for each
\* way the socket can answer: <<events, result>>
SendQueryOutcomes(token, enc, faulty) ==
    LET len == RLen(enc)
        tok == Str(LittleEndian(token))
        ln  == Str(LittleEndian(AsU32(len)))
    IN  IF TooLarge(len) THEN { << <<>>, QueryTooLarge(len) >> }
        ELSE IF faulty
        THEN { << <<WriteAllErr(tok, k)>>, my_try(IoError) >> : k \in PartialCounts(tok) }
             \cup { << <<WriteAllOk(tok), WriteAllErr(ln, k)>>, my_try(IoError) >> :
                      k \in PartialCounts(ln) }
             \cup { << <<WriteAllOk(tok), WriteAllOk(ln), Ev("write", enc, Zero, <<>>, FALSE)>>,
                       my_try(IoError) >> }
        ELSE { << <<WriteAllOk(tok), WriteAllOk(ln), Ev("write", enc, n, <<>>, TRUE)>>, Ok >> :
                 n \in WriteCounts(enc) }

\* the I/O errors the socket has reported since the handshake
Faults == Cardinality({ i \in DOMAIN log : log[i].op # "shutdown(Both)" /\ ~log[i].ok })

send_query ==
    /\ pc = "ready"
    /\ Len(calls) < MaxCalls
    /\ \E tree \in QueryTrees :
         LET token == query_token
             enc   == json_encode(to_json(tree))
         IN  /\ query_token' = NextToken(token)
             /\ \E faulty \in {f \in BOOLEAN : f => Faults < MaxFaults} :
                \E o \in SendQueryOutcomes(token, enc, faulty) :
                  /\ log' = log \o o[1]
                  /\ calls' = Append(calls, Call("send_query", tree, token, RLen(enc), o[2],
                                                 Null, <<>>, Len(log), Len(log) + Len(o[1])))
    /\ UNCHANGED <<pc, inbox, peer, hs, auth, ret>>

(***************************************************************************)
(* parse_response.                                                         *)
(***************************************************************************)
RECURSIVE Decimal(_)
\* the number a sequence of digit bytes spells
Decimal(ds) == IF ds = <<>> THEN 0 ELSE 10 * Decimal(pop(ds)) + (ds[Len(ds)] - 48)

\* Json::from_str on the bytes of a text: a number, a string, or a syntax error
from_str(bytes) ==
    IF bytes = <<>>
    THEN [res |-> Foreign("ParserError", "SyntaxError(EOFWhileParsingValue)"), value |-> Null]
    ELSE IF \A i \in DOMAIN bytes : bytes[i] \in 48..57
    THEN [res |-> Ok, value |-> I64(Decimal(bytes))]
    ELSE IF /\ Len(bytes) >= 2
            /\ bytes[1] = 34
            /\ bytes[Len(bytes)] = 34
            /\ \A i \in 2..(Len(bytes) - 1) : bytes[i] \notin {34, 92}
    THEN [res |-> Ok, value |-> String(Str(SubSeq(bytes, 2, Len(bytes) - 1)))]
    ELSE [res |-> Foreign("ParserError", "SyntaxError(InvalidSyntax)"), value |-> Null]

\* a u32 as a count of units, capped at the units there are
Upto(len, avail) == IF len[2] > 0 \/ len[1] > avail THEN avail ELSE len[1]

\* Read::read on reader.take(len) with the buffer buf: at most Len(buf) bytes,
\* at most len bytes, at most what the stream holds
TakeRead(buf, len, stream) == SubSeq(stream, 1, Min(Len(buf), Upto(len, Len(stream))))

\* let mut recv = vec![]
recv == <<>>

Eof == Foreign("io::Error", "failed to fill whole buffer")

Response(res, token, len, value, got, rest) ==
    [res |-> res, token |-> token, len |-> len, value |-> value, got |-> got, rest |-> rest]

\* parse_response_from_stream on a socket holding inb: read_u64, read_u32, one
\* read of the payload into recv, from_utf8, Json::from_str. The BufReader took
\* from the socket all that was there and is dropped with it.
parse_response_from_stream(inb, ioerr) ==
    IF ioerr THEN Response(my_try(IoError), Zero, Zero, Null, <<>>, inb)
    ELSE IF Len(inb) < 8 THEN Response(my_try(Eof), Zero, Zero, Null, inb, <<>>)
    ELSE LET token == FromLittleEndian(SubSeq(inb, 1, 8))
         IN  IF Len(inb) < 12 THEN Response(my_try(Eof), token, Zero, Null, inb, <<>>)
             ELSE LET len  == FromLittleEndian(SubSeq(inb, 9, 12))
                      read == TakeRead(recv, len, SubSeq(inb, 13, Len(inb)))
                      text == IF \E i \in DOMAIN read : read[i] = 255
                              THEN [res |-> Foreign("Utf8Error", "invalid utf-8 sequence"),
                                    value |-> Null]
                              ELSE from_str(read)
                  IN  Response(my_try(text.res), token, len \o <<0, 0>>, text.value, inb, <<>>)

\* parse_response: the same result, through the RefCell
parse_response_result(inb, ioerr) == parse_response_from_stream(inb, ioerr)

\* the reads block until twelve bytes have arrived and, for a payload length
\* other than zero, the BufReader has something more to offer
ResponseReturns(ioerr) ==
    \/ ioerr
    \/ peer.closed
    \/ /\ Len(inbox) >= 12
       /\ \/ Len(inbox) > 12
          \/ FromLittleEndian(SubSeq(inbox, 9, 12)) = <<0, 0>>

parse_response ==
    /\ pc = "ready"
    /\ Len(calls) < MaxCalls
    /\ \E ioerr \in {f \in BOOLEAN : f => Faults < MaxFaults} :
         /\ ResponseReturns(ioerr)
         /\ LET r == parse_response_result(inbox, ioerr)
            IN  /\ inbox' = r.rest
                /\ log' = Append(log, Ev("read", <<>>, Zero, r.got, ~ioerr))
                /\ calls' = Append(calls, Call("parse_response", NoTree, r.token, r.len, r.res,
                                               r.value, inbox, Len(log), Len(log) + 1))
    /\ UNCHANGED <<pc, peer, hs, auth, ret, query_token>>

\* a response frame: token, length, payload
Frame(token, payload) ==
    LittleEndian(token) \o LittleEndian(ToLimbs(Len(payload), 2)) \o payload

\* the frames a server sends: the answer 42 to token 0, the answer "a" to token 1
ServerFrames == { Frame(U64(0), <<52, 50>>), Frame(U64(1), <<34, 97, 34>>) }

\* the server sends a response frame
ServerFrame ==
    /\ pc = "ready"
    /\ ~peer.closed
    /\ peer.frames < MaxFrames
    /\ \E f \in ServerFrames : inbox' = inbox \o f
    /\ peer' = [peer EXCEPT !.frames = @ + 1]
    /\ UNCHANGED <<pc, log, hs, auth, ret, query_token, calls>>

(***************************************************************************)
(* db_create: send_query, then parse_response, each under my_try!.         *)
(***************************************************************************)
\* a db_create that goes on to read whatever send_query returned
ReadRegardless(res) == "db_create_read"

\* my_try!(self.send_query(..)): on Err db_create returns, on Ok it goes on to read
AfterSend(res) == IF res.kind = "Ok" THEN "db_create_read" ELSE "ready"

\* the names db_create is called with: one letter, and a name too long to send
DbNames == { Letters(One), Letters(wrapping_add(Sub(U32_MAX, DbCreateOverhead), One)) }

\* db_create up to the return of send_query
db_create_send ==
    /\ pc = "ready"
    /\ Len(SelectSeq(calls, LAMBDA c : c.op = "send_query")) < MaxCalls
    /\ \E name \in DbNames :
         LET tree  == DbCreateTree(name)
             token == query_token
             enc   == json_encode(to_json(tree))
         IN  /\ query_token' = NextToken(token)
             /\ \E faulty \in {f \in BOOLEAN : f => Faults < MaxFaults} :
                \E o \in SendQueryOutcomes(token, enc, faulty) :
                  /\ log' = log \o o[1]
                  /\ calls' = Append(calls, Call("send_query", tree, token, RLen(enc), o[2],
                                                 Null, <<>>, Len(log), Len(log) + Len(o[1])))
                  /\ pc' = AfterSend(o[2])
    /\ UNCHANGED <<inbox, peer, hs, auth, ret>>

\* Ok(my_try!(self.parse_response())): db_create returns what was read, or the error
db_create_read ==
    /\ pc = "db_create_read"
    /\ \E ioerr \in {f \in BOOLEAN : f => Faults < MaxFaults} :
         /\ ResponseReturns(ioerr)
         /\ LET r == parse_response_result(inbox, ioerr)
            IN  /\ inbox' = r.rest
                /\ log' = Append(log, Ev("read", <<>>, Zero, r.got, ~ioerr))
                /\ calls' = Append(calls, Call("parse_response", NoTree, r.token, r.len, r.res,
                                               r.value, inbox, Len(log), Len(log) + 1))
    /\ pc' = "ready"
    /\ UNCHANGED <<peer, hs, auth, ret, query_token>>

\* the server sends a response frame, whether or not db_create is waiting for one
ServerFrameAnytime ==
    /\ pc \in {"ready", "db_create_read"}
    /\ ~peer.closed
    /\ peer.frames < MaxFrames
    /\ \E f \in ServerFrames : inbox' = inbox \o f
    /\ peer' = [peer EXCEPT !.frames = @ + 1]
    /\ UNCHANGED <<pc, log, hs, auth, ret, query_token, calls>>

Next ==
    \/ TcpConnect
    \/ send_version_number
    \/ AwaitProtocolAck
    \/ send_client_first_message
    \/ AwaitServerFirst
    \/ HandleServerFirst
    \/ send_client_final_message
    \/ AwaitServerFinal
    \/ HandleServerFinal
    \/ ConnectOk
    \/ Teardown
    \/ ReturnErr
    \/ ServerSend
    \/ ServerCutShort
    \/ ServerClose

\* connect, from the call to its return
Spec == Init /\ [][Next]_vars

\* the steps of the caller's thread: connect and the handshake it runs
ClientStep ==
    \/ TcpConnect
    \/ send_version_number
    \/ AwaitProtocolAck
    \/ send_client_first_message
    \/ AwaitServerFirst
    \/ HandleServerFirst
    \/ send_client_final_message
    \/ AwaitServerFinal
    \/ HandleServerFinal
    \/ ConnectOk
    \/ Teardown
    \/ ReturnErr

\* connect on a thread that keeps running, over a socket whose blocking calls
\* return: the next step of the thread is taken whenever it can be, and a read
\* can always return (with a message, at the end of the stream, or with an
\* error). Nothing is assumed of the server.
SpecLive == Init /\ [][Next]_vars /\ WF_vars(ClientStep)

(***************************************************************************)
(* A connection as connect returns it, and the calls made on it.           *)
(***************************************************************************)
AckUnits == ProtocolAck(1) \o <<NUL>>
ServerFirstUnits == ServerSuccess("r=cnonce+snonce,s=salt,i=4096", 1) \o <<NUL>>
ServerFinalUnits == ServerSuccess("v=serversignature", 1) \o <<NUL>>

HandshakeSteps ==
    << "send_version_number", "parse_protocol_response", "send_client_first_message",
       "parse_server_first", "handle_server_first", "send_client_final_message",
       "parse_server_final", "handle_server_final" >>

\* the socket calls of a handshake in which every write was whole
HandshakeLog ==
    << WriteAllOk(VersionBytes), Flush,
       Ev("read_until", <<>>, Zero, AckUnits, TRUE),
       Ev("write", ClientFirstJson, RLen(ClientFirstJson), <<>>, TRUE), WriteAllOk(NulByte), Flush,
       Ev("read_until", <<>>, Zero, ServerFirstUnits, TRUE),
       Ev("write", ClientFinalJson, RLen(ClientFinalJson), <<>>, TRUE), WriteAllOk(NulByte), Flush,
       Ev("read_until", <<>>, Zero, ServerFinalUnits, TRUE) >>

InitQuery ==
    /\ pc = "ready"
    /\ log = HandshakeLog
    /\ inbox = <<>>
    /\ peer = [sent |-> 3, frames |-> 0, closed |-> FALSE]
    /\ hs = [done |-> HandshakeSteps, failed |-> "", stepErr |-> Ok, at |-> 0, err |-> Ok]
    /\ auth = TextIx("v=serversignature")
    /\ ret = Ok
    /\ query_token = U64(0)
    /\ calls = <<>>

NextQuery ==
    \/ send_query
    \/ parse_response
    \/ ServerFrame
    \/ ServerClose

\* the calls on a connection that connect returned
SpecQuery == InitQuery /\ [][NextQuery]_vars

NextDbCreate ==
    \/ db_create_send
    \/ db_create_read
    \/ ServerFrameAnytime
    \/ ServerClose

\* db_create calls on a connection that connect returned
SpecDbCreate == InitQuery /\ [][NextDbCreate]_vars

\* a connection on which 2^64 - 1 queries have been sent: the counter holds u64::MAX
InitWrap ==
    /\ pc = "ready"
    /\ log = HandshakeLog
    /\ inbox = <<>>
    /\ peer = [sent |-> 3, frames |-> 0, closed |-> FALSE]
    /\ hs = [done |-> HandshakeSteps, failed |-> "", stepErr |-> Ok, at |-> 0, err |-> Ok]
    /\ auth = TextIx("v=serversignature")
    /\ ret = Ok
    /\ query_token = U64_MAX
    /\ calls = <<>>

NextWrap == send_query

\* the queries sent once the counter has reached its last value
SpecWrap == InitWrap /\ [][NextWrap]_vars

(***************************************************************************)
(* Serialization of query trees: the trees to_json is applied to.          *)
(***************************************************************************)
\* the sequences over S of length at most n
SeqsUpTo(S, n) == UNION { [1..k -> S] : k \in 0..n }

\* literal values that are not arrays: a number, a string, null, a boolean, and
\* an object (one that holds an array)
Atoms ==
    { I64(1), Letters(One), Null, Boolean(TRUE),
      Object(<< <<"k", Array(<< I64(1) >>)>> >>) }

\* the elements of array literals: numbers, strings, and arrays
Elems == { I64(1), Letters(One), Array(<<>>), Array(<< I64(1) >>) }

ArrayLiterals == { Array(xs) : xs \in SeqsUpTo(Elems, MaxLen) }

\* the children of operator nodes: literals, an array literal, a nested operator
Children ==
    { Datum(I64(1)), Datum(Letters(One)), Datum(Array(<< I64(1) >>)),
      Query(DB_CREATE, << Datum(Letters(One)) >>) }

\* Term_TermType values
Heads == { MAKE_ARRAY, DB_CREATE }

Trees ==
    { Datum(v) : v \in Atoms \cup ArrayLiterals }
      \cup { Query(h, tail) : h \in Heads, tail \in SeqsUpTo(Children, MaxLen) }

\* a tree has been built and is about to be serialized
InitTree ==
    /\ pc = "to_json"
    /\ log = <<>>
    /\ inbox = <<>>
    /\ peer = [sent |-> 0, frames |-> 0, closed |-> FALSE]
    /\ hs = [done |-> <<>>, failed |-> "", stepErr |-> Ok, at |-> 0, err |-> Ok]
    /\ auth = 0
    /\ ret = None
    /\ query_token = Zero
    /\ \E tree \in Trees : calls = << Call("to_json", tree, Zero, Zero, None, Null, <<>>, 0, 0) >>

\* tree.to_json(): the value it returns (to_json returns a Json, not a Result)
Serialize ==
    /\ pc = "to_json"
    /\ calls' = << [calls[1] EXCEPT !.value = to_json(calls[1].tree), !.res = Ok] >>
    /\ pc' = "serialized"
    /\ UNCHANGED <<log, inbox, peer, hs, auth, ret, query_token>>

NextTree == Serialize

\* to_json applied to a tree
SpecTree == InitTree /\ [][NextTree]_vars

\* connect can return the connection SpecQuery starts from
NotInitQuery == ~InitQuery

(***************************************************************************)
(* Properties of connect and the handshake (checked under Spec).           *)
(***************************************************************************)
IsShutdown(e) == e.op = "shutdown(Both)"
IsRead(e) == e.op = "read_until"

\* the text a read_until call returned to the handshake
TextOf(e) == read_stream_until_null(e.got, FALSE).text

Returned == ret.kind # "None"
ReturnedErr == ret.kind \notin {"None", "Ok"}
HandshakeFailed == hs.failed # ""

\* the error of a handshake step in the driver's own type: a foreign error is
\* coerced to ServerError with its text, an error::Error is the error it is
Own(e) ==
    IF e.kind \in OwnKinds THEN e
    ELSE [kind |-> "ServerError", lit |-> e.lit, raw |-> e.raw, size |-> e.size]

\* C1: connect returns a Connection only if every handshake step succeeded
\* (version sent, protocol ack with success, client-first sent, server-first
\* accepted, client-final sent, server-final accepted, server proof verified);
\* once a step has failed the caller is never handed a connection.
C1_OnlyAuthenticated ==
    /\ (ret.kind = "Ok" \/ pc = "ready") =>
          /\ hs.done = HandshakeSteps
          /\ ~HandshakeFailed
          /\ \A i \in DOMAIN log : log[i].ok /\ ~IsShutdown(log[i])
          /\ LET reads == SelectSeq(log, IsRead)
                 sent  == SelectSeq(log, LAMBDA e : e.op \in {"write", "write_all"})
             IN  /\ Len(reads) = 3
                 /\ decode(TextOf(reads[1]), ProtocolSuccessResponse).kind = "Ok"
                 /\ Get(TextOf(reads[1]), "success") = 1
                 /\ \A k \in {2, 3} :
                      /\ decode(TextOf(reads[k]), ServerSuccessResponse).kind = "Ok"
                      /\ Get(TextOf(reads[k]), "success") = 1
                 /\ handle_server_first(Get(TextOf(reads[2]), "authentication")).kind = "Ok"
                 /\ handle_server_final(Get(TextOf(reads[3]), "authentication")).kind = "Ok"
                 /\ [i \in DOMAIN sent |-> sent[i].buf] =
                       << VersionBytes, ClientFirstJson, NulByte, ClientFinalJson, NulByte >>
    /\ HandshakeFailed => (ret.kind # "Ok" /\ pc # "ready")

\* connect has returned a connection to its caller
C1_Witness == pc = "ready" /\ ret.kind = "Ok" /\ Len(hs.done) = 8

\* C2: when the handshake fails, the socket is shut down (both directions) before
\* connect returns the error; when the handshake succeeds there is no shutdown.
C2_ShutdownBeforeError ==
    /\ (HandshakeFailed /\ (pc = "return_err" \/ Returned)) =>
          /\ ReturnedErr \/ pc = "return_err"
          /\ Len(log) = hs.at + 1
          /\ IsShutdown(log[Len(log)])
          /\ log[Len(log)].ok
    /\ ~HandshakeFailed => \A i \in DOMAIN log : ~IsShutdown(log[i])

\* a malformed protocol ack: connect returned the error after the shutdown
C2_Witness ==
    /\ hs.failed = "parse_protocol_response"
    /\ hs.stepErr = ServerError("", NotJson)
    /\ ReturnedErr
    /\ IsShutdown(log[Len(log)])

\* the socket calls of the handshake, in order: what is called with which buffer
HandshakeCalls ==
    << <<"write_all", VersionBytes>>, <<"flush", <<>> >>, <<"read_until", <<>> >>,
       <<"write", ClientFirstJson>>, <<"write_all", NulByte>>, <<"flush", <<>> >>,
       <<"read_until", <<>> >>,
       <<"write", ClientFinalJson>>, <<"write_all", NulByte>>, <<"flush", <<>> >>,
       <<"read_until", <<>> >> >>

\* the handshake steps that must have passed before the k-th socket call is made
StepsBefore(k) ==
    CASE k <= 2 -> 0
      [] k = 3 -> 1
      [] k <= 6 -> 2
      [] k = 7 -> 3
      [] k <= 10 -> 5
      [] OTHER -> 6

\* C3: the handshake's socket calls follow one fixed order, writes and reads
\* alternating: version (4 bytes, little-endian) and flush; read; client-first
\* JSON, NUL and flush; read; client-final JSON, NUL and flush; read. A call is
\* made only after every earlier call and step succeeded; no step is skipped or
\* repeated.
C3_FixedOrder ==
    LET io == SelectSeq(log, LAMBDA e : ~IsShutdown(e))
    IN  /\ Len(io) <= Len(HandshakeCalls)
        /\ \A k \in DOMAIN io :
             /\ <<io[k].op, io[k].buf>> = HandshakeCalls[k]
             /\ k < Len(io) => io[k].ok
             /\ Len(hs.done) >= StepsBefore(k)
        /\ hs.done = SubSeq(HandshakeSteps, 1, Len(hs.done))
        /\ VersionBytes = Str(<<195, 189, 194, 52>>)

\* the whole handshake was carried out
C3_Witness ==
    /\ pc = "handshake_ok"
    /\ Len(log) = Len(HandshakeCalls)

\* C4: after the first failing step the handshake makes no further write or read
\* and retries nothing, and the error connect returns is the error that step
\* produced.
C4_FirstFailurePropagates ==
    HandshakeFailed =>
       /\ \A i \in DOMAIN log : i > hs.at => IsShutdown(log[i])
       /\ ReturnedErr => ret = Own(hs.stepErr)

\* the message the failing read of a handshake step returned
FailedText == TextOf(log[hs.at])

ErrorShape(text) ==
    /\ decode(text, ServerSuccessResponse).kind # "Ok"
    /\ decode(text, ServerErrorResponse).kind = "Ok"
    /\ Get(text, "success") = 0

\* C5: at the server-first and server-final steps an error-shape message with
\* success=false yields the authentication failure exactly when its error_code
\* is in 10..20, and otherwise a generic server error with the server's text.
C5_AuthFailureRange ==
    ( /\ hs.failed \in {"parse_server_first", "parse_server_final"}
      /\ log[hs.at].ok
      /\ ErrorShape(FailedText) ) =>
        IF Get(FailedText, "error_code") \in 10..20
        THEN hs.err = ReqlAuthError
        ELSE hs.err = ServerError(Texts[Get(FailedText, "error")], <<>>)

\* C6: a server-final message of the success shape whose authentication field
\* the verifier rejects ends the handshake in the authentication failure.
C6_BadProofIsAuthFailure ==
    hs.failed = "handle_server_final" => hs.err = ReqlAuthError

(***************************************************************************)
(* Properties of send_query and parse_response (checked under SpecQuery).  *)
(***************************************************************************)
SendCalls == SelectSeq(calls, LAMBDA c : c.op = "send_query")
ReadCalls == SelectSeq(calls, LAMBDA c : c.op = "parse_response")

\* the socket calls a call made, and the bytes they put on the socket
CallsOf(c) == SubSeq(log, c.from + 1, c.to)
Written(c) == Wire(CallsOf(c))

\* the payload of a query: the JSON text of its tree
Payload(c) == json_encode(to_json(c.tree))

\* the token a call put on the socket, when all eight bytes went out
WroteToken(c) == c.to > c.from /\ log[c.from + 1].ok

\* C7: on a connection whose counter started at 0, the k-th send_query call uses
\* token k-1 (modulo 2^64), the token it writes is that token in little-endian
\* order, and no token is written twice.
C7_TokensInOrder ==
    /\ \A k \in DOMAIN SendCalls :
         /\ SendCalls[k].token = U64(k - 1)
         /\ SendCalls[k].to > SendCalls[k].from =>
               log[SendCalls[k].from + 1].buf = Str(LittleEndian(U64(k - 1)))
    /\ \A j, k \in DOMAIN SendCalls :
         (j # k /\ WroteToken(SendCalls[j]) /\ WroteToken(SendCalls[k])) =>
            log[SendCalls[j].from + 1].buf # log[SendCalls[k].from + 1].buf
    /\ query_token = U64(Len(SendCalls))

\* a sequence of queries went out: the second one carried token 1
C7_Witness ==
    /\ Len(SendCalls) >= 2
    /\ \A k \in 1..2 : WroteToken(SendCalls[k]) /\ SendCalls[k].res.kind = "Ok"
    /\ log[SendCalls[2].from + 1].buf = Str(<<1, 0, 0, 0, 0, 0, 0, 0>>)

\* C8: a query whose payload is longer than 2^32 - 1 bytes is refused with the
\* oversized-query error carrying the computed size, and the call writes nothing;
\* a payload of exactly 2^32 - 1 bytes is not refused.
C8_OversizedRejected ==
    \A k \in DOMAIN SendCalls :
       LET c == SendCalls[k]
           size == RLen(Payload(c))
       IN  IF Gt(size, U32_MAX)
           THEN /\ c.res = QueryTooLarge(size)
                /\ CallsOf(c) = <<>>
                /\ Written(c) = <<>>
           ELSE c.res.kind # "QueryTooLarge"

\* both sizes were sent: one byte over the limit is refused, the limit itself is written
C8_Witness ==
    /\ \E k \in DOMAIN SendCalls :
         /\ RLen(Payload(SendCalls[k])) = wrapping_add(U32_MAX, One)
         /\ SendCalls[k].res.kind = "QueryTooLarge"
    /\ \E k \in DOMAIN SendCalls :
         /\ RLen(Payload(SendCalls[k])) = U32_MAX
         /\ SendCalls[k].res.kind = "Ok"
         /\ Written(SendCalls[k]) # <<>>

\* C9: a send_query that returns Ok has put exactly one frame on the socket: the
\* token (8 bytes, little-endian), the length (4 bytes, little-endian), and as
\* many payload bytes as the length says.
C9_OneWholeFrame ==
    \A k \in DOMAIN SendCalls :
       LET c == SendCalls[k]
       IN  c.res.kind = "Ok" =>
              Written(c) = Str(LittleEndian(c.token)) \o Str(LittleEndian(AsU32(c.len)))
                              \o Payload(c)

\* the frame at the head of a stream: its token, its length, its payload
HeadToken(inb) == FromLittleEndian(SubSeq(inb, 1, 8))
HeadLen(inb) == FromLittleEndian(SubSeq(inb, 9, 12))
HeadPayload(inb) == SubSeq(inb, 13, 12 + HeadLen(inb)[1])

\* the stream begins with a whole frame whose payload is JSON
WellFormedFrame(inb) ==
    /\ Len(inb) >= 12
    /\ HeadLen(inb)[2] = 0
    /\ Len(inb) >= 12 + HeadLen(inb)[1]
    /\ from_str(HeadPayload(inb)).res.kind = "Ok"

\* C10: parse_response on a stream that begins with a well-formed frame consumes
\* exactly the frame's 12 + n bytes and returns its token, its length n and the
\* JSON value of its n payload bytes.
C10_ReadsWholeFrame ==
    \A k \in DOMAIN ReadCalls :
       LET c == ReadCalls[k]
       IN  (WellFormedFrame(c.inb) /\ log[c.to].ok) =>
              /\ c.res.kind = "Ok"
              /\ c.token = HeadToken(c.inb)
              /\ c.len = HeadLen(c.inb) \o <<0, 0>>
              /\ c.value = from_str(HeadPayload(c.inb)).value
              /\ Len(log[c.to].got) = 12 + HeadLen(c.inb)[1]

\* C11: in every sequence of db_create calls on one connection, a query that
\* was sent is followed by one read before anything else is written, a query
\* whose send failed is followed by no read, and every read follows the send
\* of its own db_create: at most one query is outstanding.
C11_OneOutstanding ==
    /\ \A i \in DOMAIN calls :
         /\ calls[i].from = (IF i = 1 THEN Len(HandshakeLog) ELSE calls[i - 1].to)
         /\ (calls[i].op = "send_query" /\ calls[i].res.kind = "Ok") =>
               IF i = Len(calls) THEN pc = "db_create_read"
               ELSE calls[i + 1].op = "parse_response"
         /\ (calls[i].op = "send_query" /\ calls[i].res.kind # "Ok") =>
               IF i = Len(calls) THEN pc = "ready"
               ELSE calls[i + 1].op = "send_query"
         /\ calls[i].op = "parse_response" =>
               /\ i > 1
               /\ calls[i - 1].op = "send_query"
               /\ calls[i - 1].res.kind = "Ok"
               /\ Len(SelectSeq(CallsOf(calls[i]), LAMBDA e : e.op = "read")) = 1
    /\ Len(log) = (IF calls = <<>> THEN Len(HandshakeLog) ELSE calls[Len(calls)].to)

\* a query was sent and its response read (or the read failed), and only then
\* was the next query sent
C11_Witness ==
    /\ Len(calls) >= 3
    /\ calls[1].op = "send_query"
    /\ calls[2].op = "parse_response"
    /\ calls[3].op = "send_query"
    /\ Wire(CallsOf(calls[3])) # <<>>

\* the token of the last query sent before the i-th call, if one was sent
SentBefore(i) == { j \in 1..(i - 1) : calls[j].op = "send_query" /\ WroteToken(calls[j]) }
LastSent(i) == calls[CHOOSE j \in SentBefore(i) : \A k \in SentBefore(i) : k <= j].token

\* C12: the response token is not compared with the token of the query sent: a
\* well-formed frame whose token differs from the last token written (or that
\* arrives when no query was written) is returned as a success, with the
\* frame's token reported unchanged.
C12_ForeignTokenReturned ==
    \A i \in DOMAIN calls :
       LET c == calls[i]
       IN  ( /\ c.op = "parse_response"
             /\ log[c.to].ok
             /\ WellFormedFrame(c.inb)
             /\ SentBefore(i) # {} => LastSent(i) # HeadToken(c.inb) ) =>
              /\ c.res.kind = "Ok"
              /\ c.token = HeadToken(c.inb)

(***************************************************************************)
(* Properties of the messages read during the handshake (under Spec).      *)
(***************************************************************************)
\* a read that returned a whole message: the NUL arrived
Complete(e) == IsRead(e) /\ e.ok /\ FirstNul(e.got) > 0
\* the text of the message received: the units before the first NUL
Raw(e) == SubSeq(e.got, 1, FirstNul(e.got) - 1)

Decodes(text, shape) == decode(text, shape).kind = "Ok"

\* the read of the protocol ack is the third call on the socket
AckRead == log[3]

\* C13: at the protocol-ack step a message that does not decode as {success,
\* min_protocol_version, max_protocol_version, server_version} fails the
\* handshake with a server error whose text is the text received; one that
\* decodes with success = false fails it with a server error carrying the fixed
\* diagnostic; only one that decodes with success = true lets the handshake go
\* on to client-first.
C13_AckOutcomes ==
    /\ (hs.failed = "parse_protocol_response" /\ Complete(AckRead)) =>
          /\ hs.err = IF Decodes(Raw(AckRead), ProtocolSuccessResponse)
                      THEN ServerError(SuccessFalse, <<>>)
                      ELSE ServerError("", Raw(AckRead))
          /\ Decodes(Raw(AckRead), ProtocolSuccessResponse) => Get(Raw(AckRead), "success") = 0
          /\ ReturnedErr => ret = hs.err
    /\ (Len(hs.done) >= 2 \/ pc = "send_client_first_message") =>
          /\ Complete(AckRead)
          /\ Decodes(Raw(AckRead), ProtocolSuccessResponse)
          /\ Get(Raw(AckRead), "success") = 1

\* the ack was not JSON, and connect returned a server error with the text received
C13_Witness ==
    /\ hs.failed = "parse_protocol_response"
    /\ Complete(AckRead)
    /\ Raw(AckRead) = NotJson
    /\ ret = ServerError("", NotJson)

\* C14: at the server-first and server-final steps a message that decodes as
\* neither {authentication, success} nor {error, error_code, success} fails the
\* handshake with a server error that carries the text received.
C14_NeitherShapeCarriesRaw ==
    ( /\ hs.failed \in {"parse_server_first", "parse_server_final"}
      /\ Complete(log[hs.at])
      /\ ~Decodes(Raw(log[hs.at]), ServerSuccessResponse)
      /\ ~Decodes(Raw(log[hs.at]), ServerErrorResponse) ) =>
        hs.err = ServerError("", Raw(log[hs.at]))

\* C15: read_until_null returns the bytes before the first NUL, the NUL
\* consumed and dropped; it fails on text that is not valid and on an I/O
\* error, and it fails when the stream ends before a NUL was seen: a message
\* cut short is never returned as a success.
C15_ReadUntilNull ==
    \A i \in DOMAIN log :
       IsRead(log[i]) =>
          /\ Complete(log[i]) => TextOf(log[i]) = Raw(log[i])
          /\ (\E j \in DOMAIN TextOf(log[i]) : TextOf(log[i])[j] = 255) => ~log[i].ok
          /\ FirstNul(log[i].got) = 0 => ~log[i].ok

IsWrite(e) == e.op \in {"write", "write_all"}
IsAnyRead(e) == e.op \in {"read_until", "read"}

\* the j-th socket call belongs to a send_query that returned an error: what
\* it wrote is no complete message
InFailedSend(j) ==
    \E i \in DOMAIN calls :
       /\ calls[i].op = "send_query"
       /\ calls[i].res.kind # "Ok"
       /\ calls[i].from < j
       /\ j <= calls[i].to

\* C16: every complete message the driver writes (the version number, the
\* client-first and client-final messages, each query frame of send_query) is
\* followed by a flush of the stream after its last byte and before the driver
\* starts its next read.
C16_FlushBeforeRead ==
    \A i \in DOMAIN log :
       IsAnyRead(log[i]) =>
          \A j \in 1..(i - 1) :
             (IsWrite(log[j]) /\ ~InFailedSend(j)) =>
                \E k \in (j + 1)..(i - 1) : log[k] = Flush

(***************************************************************************)
(* Properties of to_json (under SpecTree).                                 *)
(***************************************************************************)
Serialized == pc = "serialized"
TheTree == calls[1].tree
TheJson == calls[1].value

\* the sequence xs with its i-th and j-th elements exchanged
Swap(xs, i, j) == [k \in DOMAIN xs |-> IF k = i THEN xs[j] ELSE IF k = j THEN xs[i] ELSE xs[k]]

\* C17: an operator node with code C and children t1 .. tn serializes to the
\* array [C, serialize(t1), .., serialize(tn)], children in their order;
\* exchanging two children whose serializations differ changes the output;
\* serialization does not fail.
C17_OperatorNode ==
    (Serialized /\ TheTree.t = "Query") =>
       /\ calls[1].res = Ok
       /\ TheJson.j = "Array"
       /\ Len(TheJson.v) = 1 + Len(TheTree.tail)
       /\ TheJson.v[1] = I64(TheTree.head)
       /\ \A i \in DOMAIN TheTree.tail : TheJson.v[i + 1] = to_json(TheTree.tail[i])
       /\ \A i, j \in DOMAIN TheTree.tail :
             to_json(TheTree.tail[i]) # to_json(TheTree.tail[j]) =>
                to_json(Query(TheTree.head, Swap(TheTree.tail, i, j))) # TheJson

\* an operator with two children that serialize differently was serialized
C17_Witness ==
    /\ Serialized
    /\ TheTree.t = "Query"
    /\ Len(TheTree.tail) = 2
    /\ to_json(TheTree.tail[1]) # to_json(TheTree.tail[2])

RECURSIVE Escaped(_)
\* a value with every array in it, at any depth of array nesting, in the
\* MAKE_ARRAY form
Escaped(json) ==
    IF json.j = "Array"
    THEN Array(<< I64(MAKE_ARRAY), Array([i \in DOMAIN json.v |-> Escaped(json.v[i])]) >>)
    ELSE json

\* C18: a literal node wrapping an array a serializes to
\* [MAKE_ARRAY, [serialize(e) for e in a]], never to a bare array; elements
\* that are arrays appear in their MAKE_ARRAY form too.
C18_ArraysEscaped ==
    (Serialized /\ TheTree.t = "Datum" /\ TheTree.json.j = "Array") =>
       /\ TheJson # TheTree.json
       /\ TheJson = Escaped(TheTree.json)

\* C19: a literal node wrapping a value that is not an array (a string, a
\* number, a boolean, null, an object) serializes to that value, unchanged.
C19_OtherLiteralsUnchanged ==
    (Serialized /\ TheTree.t = "Datum" /\ TheTree.json.j # "Array") =>
       TheJson = TheTree.json

\* a literal object, one that holds an array, was serialized
C19_Witness ==
    /\ Serialized
    /\ TheTree.t = "Datum"
    /\ TheTree.json.j = "Object"

\* every socket call of the call c succeeded
AllWritesOk(c) == \A i \in (c.from + 1)..c.to : log[i].ok

\* C20: when the counter holds the largest 64-bit value, send_query uses that
\* value as its token and does not fail because of it (it fails only when the
\* payload is too large or the socket reports an error); the counter is then
\* 0, and the next query uses token 0.
C20_WrapAccepted ==
    /\ Len(SendCalls) >= 1 =>
          /\ SendCalls[1].token = U64_MAX
          /\ WroteToken(SendCalls[1]) =>
                log[SendCalls[1].from + 1].buf = Str(<<255, 255, 255, 255, 255, 255, 255, 255>>)
          /\ (~Gt(RLen(Payload(SendCalls[1])), U32_MAX) /\ AllWritesOk(SendCalls[1])) =>
                SendCalls[1].res = Ok
    /\ Len(SendCalls) = 1 => query_token = Zero
    /\ Len(SendCalls) >= 2 =>
          /\ SendCalls[2].token = Zero
          /\ WroteToken(SendCalls[2]) =>
                log[SendCalls[2].from + 1].buf = Str(<<0, 0, 0, 0, 0, 0, 0, 0>>)

\* the query with the last token was sent, and the next one went out with token 0
C20_Witness ==
    /\ Len(SendCalls) >= 2
    /\ SendCalls[1].res = Ok
    /\ SendCalls[1].token = U64_MAX
    /\ WroteToken(SendCalls[2])
    /\ SendCalls[2].res = Ok

(***************************************************************************)
(* Properties of the shape of server messages (under Spec).                *)
(***************************************************************************)
\* the reads of the handshake, in order: ack, server-first, server-final
HandshakeReads == SelectSeq(log, IsRead)

\* the k-th message read (2: server-first, 3: server-final) let the handshake go on
Proceeded(k) ==
    IF k = 2 THEN "parse_server_first" \in {hs.done[i] : i \in DOMAIN hs.done}
    ELSE "parse_server_final" \in {hs.done[i] : i \in DOMAIN hs.done}

\* C21: at the server-first and server-final steps the success shape is tried
\* first and the error shape only when it does not decode. The handshake goes on
\* only on a success-shape message with success = true; a success-shape message
\* with success = false, and an error-shape message with success = true, each
\* end it in a generic server error with a fixed diagnostic, never in the
\* authentication failure, whatever error_code the message carries.
C21_SuccessShapeFirst ==
    /\ ( /\ hs.failed \in {"parse_server_first", "parse_server_final"}
         /\ Complete(log[hs.at]) ) =>
          LET text == Raw(log[hs.at])
          IN  /\ Decodes(text, ServerSuccessResponse) =>
                    /\ Get(text, "success") = 0
                    /\ hs.err = ServerError(SuccessFalse, <<>>)
                    /\ ReturnedErr => ret = ServerError(SuccessFalse, <<>>)
              /\ ( /\ ~Decodes(text, ServerSuccessResponse)
                   /\ Decodes(text, ServerErrorResponse)
                   /\ Get(text, "success") = 1 ) =>
                    /\ hs.err = ServerError(ErrorTrue, <<>>)
                    /\ ReturnedErr => ret = ServerError(ErrorTrue, <<>>)
    /\ \A k \in {2, 3} :
          Proceeded(k) =>
             /\ Len(HandshakeReads) >= k
             /\ HandshakeReads[k].ok
             /\ Decodes(TextOf(HandshakeReads[k]), ServerSuccessResponse)
             /\ Get(TextOf(HandshakeReads[k]), "success") = 1

\* a server-first message with the fields of both shapes, success = false and
\* error_code 15: connect returned the fixed diagnostic of the success shape
C21_Witness ==
    /\ hs.failed = "parse_server_first"
    /\ Complete(log[hs.at])
    /\ Raw(log[hs.at]) = BothShapes("r=cnonce+snonce,s=salt,i=4096", 0)
    /\ ret = ServerError(SuccessFalse, <<>>)

(***************************************************************************)
(* Properties of failed and repeated calls (under SpecQuery).              *)
(***************************************************************************)
\* the value of the counter when the k-th send_query call returned
CounterAfter(k) == IF k = Len(SendCalls) THEN query_token ELSE SendCalls[k + 1].token

\* C22: send_query is all-or-nothing: a call that fails, with the
\* oversized-query error or with a write failure, has put no byte of a frame on
\* the socket and leaves the counter at the value it had before the call, so
\* that the next send_query uses the token the failed call would have used.
C22_SendAllOrNothing ==
    \A k \in DOMAIN SendCalls :
       SendCalls[k].res.kind # "Ok" =>
          /\ Written(SendCalls[k]) = <<>>
          /\ CounterAfter(k) = SendCalls[k].token

\* the units a read took from the socket beyond the end of the message it returned
TakenBeyond(e) == SubSeq(e.got, FirstNul(e.got) + 1, Len(e.got))

\* C23: after every successful read of a message the read position of the
\* stream is at the first byte after that message: what the server sent after
\* it (a following message that arrived with it) has not been taken from the
\* socket by this read, and is there for the next read.
C23_StreamAligned ==
    \A i \in DOMAIN log :
       Complete(log[i]) => TakenBeyond(log[i]) = <<>>

\* the shutdown of the teardown reported an error
ShutdownFailed == \E i \in DOMAIN log : IsShutdown(log[i]) /\ ~log[i].ok

\* C24: when the shutdown of the socket during teardown itself fails, connect
\* still returns the handshake's error to its caller: the failure of the
\* teardown does not replace that error and does not abort the program.
C24_TeardownFailureTolerated ==
    ShutdownFailed =>
       /\ pc \in {"return_err", "returned"}
       /\ Returned => ret = hs.err

(***************************************************************************)
(* Termination of connect (under SpecLive).                                *)
(***************************************************************************)
\* connect has ended: it returned the connection, returned an error, or unwound
\* from the shutdown that failed
Terminated == pc \in {"ready", "returned", "panicked"}

\* the handshake is over: authenticated, or failed at a step
HandshakeOver == hs.done = HandshakeSteps \/ HandshakeFailed

\* the messages written so far: the socket calls that pass the version number,
\* the client-first text or the client-final text
MessageWrites ==
    SelectSeq(log, LAMBDA e : IsWrite(e) /\ e.buf \in {VersionBytes, ClientFirstJson, ClientFinalJson})

\* no element occurs twice in the sequence xs
NoRepeat(xs) == \A i, j \in DOMAIN xs : xs[i] = xs[j] => i = j

\* at most three messages written and three read, and no step or message repeated
BoundedHandshake ==
    /\ Len(MessageWrites) <= 3
    /\ Len(HandshakeReads) <= 3
    /\ NoRepeat(hs.done)
    /\ NoRepeat([i \in DOMAIN MessageWrites |-> MessageWrites[i].buf])

\* C25: if every blocking call on the stream returns (with data, at the end of
\* the stream, or with an error), connect always terminates: the handshake
\* reaches the authenticated state or a failed state, after at most three
\* message writes and three message reads, and no step is ever repeated.
C25_ConnectTerminates ==
    /\ <>Terminated
    /\ [](Terminated /\ ret.kind # "ServerError" => HandshakeOver)
    /\ []BoundedHandshake

\* connect ended with all three messages written and all three read
C25_Witness ==
    /\ Terminated
    /\ HandshakeOver
    /\ Len(MessageWrites) = 3
    /\ Len(HandshakeReads) = 3

=============================================================================
